---- MODULE Spec2Model ----
(***************************************************************************)
(* Crawl orchestration of telegram-crawler: the SessionManager (session    *)
(* pool), the TelegramCrawler worker pool and job queue, and the           *)
(* per-channel pipeline of process_channel, as one state machine.          *)
(*                                                                         *)
(* The program runs on one asyncio event loop: the code between two awaits *)
(* is atomic, so every action below is the code from one suspension point  *)
(* to the next.                                                            *)
(***************************************************************************)
EXTENDS Integers, Sequences, FiniteSets, TLC

\* ------------------------------------------------------------------ bounds
NumSessions == 2      \* len(self.session_files)
MaxWorkers == 2       \* self.max_workers
MaxJobs == 2          \* len(channels_to_process) is at most this
MaxFlood == 1         \* FloodWaitError is raised at most this often in a run
MaxConnFail == 1      \* connect/authorize/proxy failures in a run
MaxRetry == 3         \* retry_count is counted up to this value and stays there
MaxSimilar == 1       \* recommended channels with a username, per channel
MaxRelated == 1       \* forwarded-from channel ids, per channel
MaxBatches == 1       \* full batches of messages, per channel
MaxCalls == 5         \* calls of the pool's methods in PoolSpec
MaxMsgId == 3         \* message ids of the channel are 1..MaxMsgId
batch_size == 2       \* self.batch_size (100 in the source), scaled to the ids
MaxRuns == 3          \* runs of _process_channel_messages on the channel
MaxFaults == 1        \* failures of remote and database calls in MsgSpec
NumChannels == 2      \* channels that edges are drawn between
MaxAttempts == 9      \* attempts of one job in RetrySpec
MaxDequeues == 3      \* jobs one worker takes off the queue in RetrySpec
MaxMessages == 3      \* length of the message list in ExtractSpec
NumCategories == 2    \* categories passed to process_channels_by_category

None == 0

Sessions == 1..NumSessions
Workers == 1..MaxWorkers
Jobs == 1..MaxJobs
\* the addresses of the links table
Links == 1..MaxJobs

VARIABLES
    \* SessionManager
    current_session_index,  \* 0..NumSessions-1
    clients,                \* keys of self.clients
    busy_sessions,
    banned_sessions,
    lock,                   \* the worker inside "async with self.lock", or None
    \* the remote side
    ready,                  \* sessions whose connect and authorization succeeded
    revoked,                \* sessions whose account the remote side has banned
    floods,                 \* FloodWaitErrors raised so far
    connFails,              \* connect failures so far
    \* TelegramCrawler
    channel_queue,          \* items of the asyncio.Queue
    unfinished_tasks,       \* the queue's counter that join() waits on
    active_workers,
    mainpc,                 \* process_channels_by_category: "start", "join", "returned"
    enqueued,               \* number of channels put on the queue at start
    cancelled,              \* the workers that the end of the run cancelled
    all_channels,           \* the addresses put on the queue at start, in order
    \* one worker task each
    pc,
    channel_url,            \* the job the worker holds, or None
    retry_count,
    session_name,           \* the session process_channel acquired, or None
    scan_left,              \* iterations left of get_client's for loop
    passed,                 \* slots the worker's current or last get_client call
                            \* passed over (busy or banned) or failed to connect
    pending,                \* items left in the current pipeline stage
    \* history
    done,                   \* per job: number of times it was counted complete
    att,                    \* the running attempt: did a remote call raise ban / flood
    last,                   \* the worker's last finished attempt
    \* the pool's interface called directly (PoolSpec)
    call,                   \* the last call: its operation, its session, its number
    \* the messages of one channel (MsgSpec)
    remote_ids,             \* ids of the messages the channel has on the remote side
    rows,                   \* channel_messages: number of rows per message id
    run,                    \* per worker: its run of _process_channel_messages
    runs,                   \* runs started so far
    faults,                 \* failures injected so far
    \* the edges between channels (EdgeSpec)
    channel_similar,        \* rows of the table per (main, similar) pair
    channel_related,        \* rows of the table per (main, related) pair
    adding,                 \* per worker: its add_similar_channel / add_related_channel call
    \* the resolution of one address (ResolveSpec)
    resolving,              \* the address, the remote answer, and what became of them
    \* the retry loop of one worker (RetrySpec)
    retrying,               \* the worker's locals and the attempts it has made
    \* one call of extract_forwarded_channels (ExtractSpec)
    extracting              \* the messages, the channel's own id, the result

smVars == <<current_session_index, clients, busy_sessions, banned_sessions, lock>>
envVars == <<ready, revoked, floods, connFails>>
crawlerVars == <<channel_queue, unfinished_tasks, active_workers, mainpc, enqueued,
                 cancelled, all_channels>>
workerVars == <<pc, channel_url, retry_count, session_name, scan_left, passed, pending>>
histVars == <<done, att, last>>
\* the variables that only the specifications of single components use
msgVars == <<remote_ids, rows, run, runs, faults>>
edgeVars == <<channel_similar, channel_related, adding>>
sideVars == <<call, msgVars, edgeVars, resolving, retrying, extracting>>
crawlVars == <<smVars, envVars, crawlerVars, workerVars, histVars>>
vars == <<crawlVars, sideVars>>

\* ------------------------------------------------------------ SessionManager

get_available_session_count == NumSessions - Cardinality(banned_sessions)

rotate_session(i) == (i + 1) % NumSessions

\* mutants of Skipped: the busy check, or the banned check, is forgotten
SkippedBannedOnly(s) == s \in banned_sessions

SkippedBusyOnly(s) == s \in busy_sessions

\* mutant of Skipped: every slot is passed over
SkippedAlways(s) == TRUE

\* get_client line 51: the slot is passed over
Skipped(s) == s \in busy_sessions \/ s \in banned_sessions

\* mutant of release_client: the session is not taken out of the busy set
release_client_kept(busy, s) == busy

\* mutant of release_client: every session is released
release_client_all(busy, s) == {}

\* release_client: the busy set after release_client(s)
release_client(busy, s) == IF s \in busy THEN busy \ {s} ELSE busy

\* mutant of mark_session_banned: the session leaves the busy set only
mark_session_banned_forgotten(s) ==
    [banned |-> banned_sessions, busy |-> busy_sessions \ {s}]

\* mark_session_banned: the banned and busy sets after mark_session_banned(s)
mark_session_banned(s) ==
    IF s \in clients
    THEN [banned |-> banned_sessions \cup {s},
          busy |-> IF s \in busy_sessions THEN busy_sessions \ {s} ELSE busy_sessions]
    ELSE [banned |-> banned_sessions, busy |-> busy_sessions]

\* mutant of Scan: the iterations made before a connect are not counted
RECURSIVE ScanUncounted(_, _, _)
ScanUncounted(i, k, cl) ==
    IF k = 0
    THEN [kind |-> "none", s |-> None, idx |-> i, k |-> 0, skipped |-> {}]
    ELSE LET s == i + 1
             ni == rotate_session(i)
         IN IF Skipped(s)
            THEN [ScanUncounted(ni, k - 1, cl) EXCEPT !.skipped = @ \cup {s}]
            ELSE IF s \notin cl
                 THEN [kind |-> "connect", s |-> s, idx |-> ni, k |-> NumSessions,
                       skipped |-> {}]
                 ELSE [kind |-> "cached", s |-> s, idx |-> ni, k |-> k - 1,
                       skipped |-> {}]

\* get_client's for loop from slot index i with k iterations left, the cached
\* clients being cl: it stops at the first slot that is neither busy nor banned,
\* which is either cached ("cached": returned at once) or not ("connect": the
\* loop suspends in the startup delay and the connect), or runs out ("none").
\* skipped: the slots line 51 passed over on the way.
RECURSIVE Scan(_, _, _)
Scan(i, k, cl) ==
    IF k = 0
    THEN [kind |-> "none", s |-> None, idx |-> i, k |-> 0, skipped |-> {}]
    ELSE LET s == i + 1
             ni == rotate_session(i)
         IN IF Skipped(s)
            THEN [Scan(ni, k - 1, cl) EXCEPT !.skipped = @ \cup {s}]
            ELSE IF s \notin cl
                 THEN [kind |-> "connect", s |-> s, idx |-> ni, k |-> k - 1,
                       skipped |-> {}]
                 ELSE [kind |-> "cached", s |-> s, idx |-> ni, k |-> k - 1,
                       skipped |-> {}]


\* the slot get_client is connecting: the one before the rotated cursor
Candidate == ((current_session_index + NumSessions - 1) % NumSessions) + 1

\* --------------------------------------------------------- the remote side

\* What a remote call made on session s can do: a client that never connected
\* raises a plain error, a revoked account raises UserDeactivatedBanError on
\* every call, and otherwise the call succeeds, fails with some other error,
\* is rate-limited (FloodWaitError) or finds the account banned.
Remote(s) ==
    IF s \notin ready THEN {"err"}
    ELSE IF s \in revoked THEN {"ban"}
    ELSE {"ok", "err", "ban"} \cup (IF floods < MaxFlood THEN {"flood"} ELSE {})

RemoteEffect(s, o) ==
    /\ revoked' = IF o = "ban" THEN revoked \cup {s} ELSE revoked
    /\ floods' = IF o = "flood" THEN floods + 1 ELSE floods
    /\ UNCHANGED <<ready, connFails>>

Flags(w, o) == [ban |-> att[w].ban \/ o = "ban", flood |-> att[w].flood \/ o = "flood"]

NoFlags == [ban |-> FALSE, flood |-> FALSE]

NoAttempt == [job |-> None, sess |-> None, how |-> "none", ban |-> FALSE,
              flood |-> FALSE, prevHow |-> "none", prevSess |-> None]

NoCall == [op |-> "none", s |-> None, n |-> 0]

\* ------------------------------------------------------------------ worker

\* mutant of Success: only a completed pipeline counts as success
SuccessDoneOnly(how) == how = "done"

\* mutant of Success: an attempt that got no session counts as success too
SuccessNoClient(how) == how \in {"done", "unresolvable", "exception", "no_client"}

\* process_channel returns True for these outcomes and False for the others
Success(how) == how \in {"done", "unresolvable", "exception"}

\* mutant of PutBack: task_done without the put_nowait
PutBackLost(q, n, j) == [queue |-> q, unfinished |-> n - 1]

\* worker lines 581-586: the job goes back on the queue and the attempt is
\* marked done: the queue and its unfinished counter afterwards
PutBack(q, n, j) == [queue |-> Append(q, j), unfinished |-> (n + 1) - 1]

\* mutant of GiveUp: the worker backs off whatever the count
GiveUpNever(available_count) == FALSE

\* worker line 581: no session is left, the job is put back and the worker stops
GiveUp(available_count) == available_count = 0

\* worker lines 550-560: the top of the loop. With no session available the
\* worker stops (line 556, then the finally of line 605); otherwise it waits
\* on the queue. aw is the count of active workers before the step and
\* available_count the result of get_available_session_count.
LoopTop(w, available_count, aw) ==
    IF available_count = 0
    THEN /\ pc' = [pc EXCEPT ![w] = "exited"]
         /\ active_workers' = aw - 1
    ELSE /\ pc' = [pc EXCEPT ![w] = "waiting"]
         /\ active_workers' = aw

\* The end of an attempt of process_channel by worker w and what the worker
\* does with its result, up to the worker's next suspension point.
\*   how: "done" (line 422), "unresolvable" (lines 382, 391), "exception"
\*   (line 443), "flood" (line 431), "ban" (line 438), "no_client" (line 368);
\*   f: whether a remote call of the attempt raised a ban / a rate limit.
Finish(w, how, f) ==
    LET s == session_name[w]
        j == channel_url[w]
        mb == IF how = "ban" /\ s # None
              THEN mark_session_banned(s)
              ELSE [banned |-> banned_sessions, busy |-> busy_sessions]
        busy == IF s # None THEN release_client(mb.busy, s) ELSE mb.busy
        available_count == NumSessions - Cardinality(mb.banned)
        first == retry_count[w] = 1
        rec == [job |-> j, sess |-> s, how |-> how, ban |-> f.ban, flood |-> f.flood,
                prevHow |-> IF first THEN "none" ELSE last[w].how,
                prevSess |-> IF first THEN None ELSE last[w].sess]
    IN /\ banned_sessions' = mb.banned
       /\ busy_sessions' = busy
       /\ session_name' = [session_name EXCEPT ![w] = None]
       /\ scan_left' = [scan_left EXCEPT ![w] = 0]
       /\ pending' = [pending EXCEPT ![w] = 0]
       /\ att' = [att EXCEPT ![w] = NoFlags]
       /\ last' = [last EXCEPT ![w] = rec]
       /\ IF Success(how)
          THEN \* lines 594-596: task_done, then the top of the loop
               /\ unfinished_tasks' = unfinished_tasks - 1
               /\ done' = [done EXCEPT ![j] = @ + 1]
               /\ LoopTop(w, available_count, active_workers)
               /\ channel_url' = [channel_url EXCEPT ![w] = None]
               /\ retry_count' = [retry_count EXCEPT ![w] = 0]
               /\ UNCHANGED channel_queue
          ELSE IF GiveUp(available_count)
          THEN \* lines 581-586, then line 554 and the finally of line 605
               /\ channel_queue' = PutBack(channel_queue, unfinished_tasks, j).queue
               /\ unfinished_tasks' = PutBack(channel_queue, unfinished_tasks, j).unfinished
               /\ pc' = [pc EXCEPT ![w] = "exited"]
               /\ channel_url' = [channel_url EXCEPT ![w] = None]
               /\ retry_count' = [retry_count EXCEPT ![w] = 0]
               /\ active_workers' = active_workers - 1
               /\ UNCHANGED done
          ELSE \* lines 589-591: sleep, then the same job again
               /\ pc' = [pc EXCEPT ![w] = "backoff"]
               /\ UNCHANGED <<channel_queue, unfinished_tasks, active_workers,
                              channel_url, retry_count, done>>

\* worker lines 542-560: the task starts, counts itself and enters the loop
WorkerStart(w) ==
    /\ pc[w] = "start"
    /\ mainpc = "join"
    /\ LoopTop(w, get_available_session_count, active_workers + 1)
    /\ UNCHANGED <<smVars, envVars, channel_queue, unfinished_tasks, mainpc, enqueued,
                   cancelled, all_channels,
                   channel_url, retry_count, session_name, scan_left, passed, pending,
                   histVars>>
    /\ UNCHANGED sideVars

\* worker lines 560, 568-572: queue.get() delivers a job, the first attempt starts
WorkerGet(w) ==
    /\ pc[w] = "waiting"
    /\ channel_queue # <<>>
    /\ channel_url' = [channel_url EXCEPT ![w] = Head(channel_queue)]
    /\ channel_queue' = Tail(channel_queue)
    /\ retry_count' = [retry_count EXCEPT ![w] = 1]
    /\ pc' = [pc EXCEPT ![w] = "get_client"]
    /\ UNCHANGED <<smVars, envVars, unfinished_tasks, active_workers, mainpc, enqueued,
                   cancelled, all_channels,
                   session_name, scan_left, passed, pending, histVars>>
    /\ UNCHANGED sideVars

\* worker lines 561-563: nothing arrived within the timeout
WorkerTimeout(w) ==
    /\ pc[w] = "waiting"
    /\ channel_queue = <<>>
    /\ pc' = [pc EXCEPT ![w] = "exited"]
    /\ active_workers' = active_workers - 1
    /\ UNCHANGED <<smVars, envVars, channel_queue, unfinished_tasks, mainpc, enqueued,
                   cancelled, all_channels,
                   channel_url, retry_count, session_name, scan_left, passed, pending,
                   histVars>>
    /\ UNCHANGED sideVars

\* worker lines 591, 571-576: the sleep ends, the next attempt of the same job starts
Backoff(w) ==
    /\ pc[w] = "backoff"
    /\ retry_count' = [retry_count EXCEPT ![w] = IF @ < MaxRetry THEN @ + 1 ELSE @]
    /\ pc' = [pc EXCEPT ![w] = "get_client"]
    /\ UNCHANGED <<smVars, envVars, crawlerVars, channel_url, session_name, scan_left,
                   passed, pending, histVars>>
    /\ UNCHANGED sideVars

\* What get_client does with the outcome r of its for loop (cl: the cached
\* clients at that point): line 96 returns None, line 93 returns a cached
\* client, or the loop suspends at line 57 holding the lock. p: the slots the
\* call had passed over or failed to connect before this part of the loop.
AfterScan(w, r, p) ==
    /\ current_session_index' = r.idx
    /\ passed' = [passed EXCEPT ![w] = IF r.kind = "cached" THEN {}
                                       ELSE p \cup r.skipped]
    /\ IF r.kind = "none"
       THEN /\ lock' = None
            /\ Finish(w, "no_client", att[w])
       ELSE IF r.kind = "cached"
       THEN /\ lock' = None
            /\ busy_sessions' = busy_sessions \cup {r.s}
            /\ session_name' = [session_name EXCEPT ![w] = r.s]
            /\ scan_left' = [scan_left EXCEPT ![w] = 0]
            /\ pc' = [pc EXCEPT ![w] = "resolve"]
            /\ UNCHANGED <<banned_sessions, pending, att, last, unfinished_tasks, done,
                           channel_url, retry_count, channel_queue, active_workers>>
       ELSE /\ lock' = w
            /\ scan_left' = [scan_left EXCEPT ![w] = r.k]
            /\ pc' = [pc EXCEPT ![w] = "connecting"]
            /\ UNCHANGED <<banned_sessions, busy_sessions, session_name, pending, att,
                           last, unfinished_tasks, done, channel_url, retry_count,
                           channel_queue, active_workers>>

\* process_channel line 365, get_client lines 39-57: the lock is taken and the
\* slots are scanned
GetClient(w) ==
    /\ pc[w] = "get_client"
    /\ lock = None
    /\ IF Cardinality(banned_sessions) >= NumSessions
       THEN /\ Finish(w, "no_client", att[w])
            /\ passed' = [passed EXCEPT ![w] = banned_sessions]
            /\ UNCHANGED <<current_session_index, lock>>
       ELSE AfterScan(w, Scan(current_session_index, NumSessions, clients), {})
    /\ UNCHANGED <<clients, envVars, mainpc, enqueued, cancelled, all_channels>>
    /\ UNCHANGED sideVars

\* get_client lines 57-93 for the slot being connected
ConnectOk(w) ==
    /\ pc[w] = "connecting"
    /\ clients' = clients \cup {Candidate}
    /\ ready' = ready \cup {Candidate}
    /\ busy_sessions' = busy_sessions \cup {Candidate}
    /\ session_name' = [session_name EXCEPT ![w] = Candidate]
    /\ scan_left' = [scan_left EXCEPT ![w] = 0]
    /\ passed' = [passed EXCEPT ![w] = {}]
    /\ lock' = None
    /\ pc' = [pc EXCEPT ![w] = "resolve"]
    /\ UNCHANGED <<current_session_index, banned_sessions, revoked, floods, connFails,
                   crawlerVars, channel_url, retry_count, pending, histVars>>
    /\ UNCHANGED sideVars

\* get_client lines 82-88: connect raised or the session is not authorized; the
\* client stays cached and the loop goes on with the next slot
ConnectFail(w) ==
    /\ pc[w] = "connecting"
    /\ connFails < MaxConnFail
    /\ connFails' = connFails + 1
    /\ clients' = clients \cup {Candidate}
    /\ AfterScan(w, Scan(current_session_index, scan_left[w], clients \cup {Candidate}),
                 passed[w] \cup {Candidate})
    /\ UNCHANGED <<ready, revoked, floods, mainpc, enqueued, cancelled, all_channels>>
    /\ UNCHANGED sideVars

\* get_client lines 60-61: get_random_proxy returned None and proxy['addr']
\* raises; the exception leaves get_client and reaches process_channel line 440
NoProxy(w) ==
    /\ pc[w] = "connecting"
    /\ connFails < MaxConnFail
    /\ connFails' = connFails + 1
    /\ lock' = None
    /\ Finish(w, "exception", att[w])
    /\ UNCHANGED <<current_session_index, clients, ready, revoked, floods, mainpc,
                   enqueued, cancelled, all_channels, passed>>
    /\ UNCHANGED sideVars


\* ---------------------------------------------------------------- pipeline

\* the variables a pipeline step inside one stage leaves alone
KeepPool ==
    UNCHANGED <<smVars, crawlerVars, channel_url, retry_count, session_name, scan_left,
                passed, done, last>>

Stay(w, stage, n, f) ==
    /\ pc' = [pc EXCEPT ![w] = stage]
    /\ pending' = [pending EXCEPT ![w] = n]
    /\ att' = [att EXCEPT ![w] = f]
    /\ KeepPool

End(w, how, f) ==
    /\ Finish(w, how, f)
    /\ UNCHANGED <<current_session_index, clients, lock, mainpc, enqueued, cancelled,
                   all_channels, passed>>

\* process_channel lines 377-382, get_channel_from_url, _process_invite_link,
\* _process_public_channel: FloodWaitError and UserDeactivatedBanError are
\* re-raised, any other failure gives (None, None)
Resolve(w) ==
    /\ pc[w] = "resolve"
    /\ \E o \in Remote(session_name[w]) :
        /\ RemoteEffect(session_name[w], o)
        /\ IF o = "ok" THEN Stay(w, "save_main", 0, Flags(w, o))
           ELSE IF o = "err" THEN End(w, "unresolvable", Flags(w, o))
           ELSE End(w, o, Flags(w, o))
    /\ UNCHANGED sideVars

\* process_channel lines 385-391: get_or_create_channel returns the channel or None
SaveMain(w) ==
    /\ pc[w] = "save_main"
    /\ UNCHANGED envVars
    /\ \E saved \in BOOLEAN :
        IF saved THEN Stay(w, "similar", 0, att[w])
        ELSE End(w, "unresolvable", att[w])
    /\ UNCHANGED sideVars

\* get_similar_channels lines 165-172, 189-194: the recommendations request;
\* n of the recommended channels have a username
FetchSimilar(w) ==
    /\ pc[w] = "similar"
    /\ \E o \in Remote(session_name[w]) :
        /\ RemoteEffect(session_name[w], o)
        /\ IF o = "ok"
           THEN \E n \in 0..MaxSimilar :
                    Stay(w, IF n = 0 THEN "messages" ELSE "similar_detail", n, Flags(w, o))
           ELSE IF o = "err" THEN Stay(w, "messages", 0, Flags(w, o))
           ELSE End(w, o, Flags(w, o))
    /\ UNCHANGED sideVars

\* get_similar_channels lines 178-186: the full-channel request for one
\* recommended channel, inside "except Exception: continue"
SimilarDetail(w) ==
    /\ pc[w] = "similar_detail"
    /\ \E o \in Remote(session_name[w]) :
        /\ RemoteEffect(session_name[w], o)
        /\ Stay(w, IF pending[w] = 1 THEN "messages" ELSE "similar_detail",
                pending[w] - 1, Flags(w, o))
    /\ UNCHANGED sideVars

\* _process_related_channels lines 518-523 after _process_channel_messages:
\* n forwarded-from channel ids are found in the messages of this attempt;
\* with none the attempt is complete (process_channel line 422)
EnterRelated(w, some, f) ==
    \E n \in 0..(IF some THEN MaxRelated ELSE 0) :
        IF n = 0 THEN End(w, "done", f) ELSE Stay(w, "related", n, f)

\* _process_channel_messages lines 461-475, get_channel_messages: one page.
\* pending counts the batches fetched so far. FloodWaitError is re-raised; any
\* other exception, UserDeactivatedBanError included, gives an empty batch.
FetchMessages(w) ==
    /\ pc[w] = "messages"
    /\ \E o \in Remote(session_name[w]) :
        /\ RemoteEffect(session_name[w], o)
        /\ IF o = "ok"
           THEN \E size \in {"empty", "short"} \cup
                            (IF pending[w] < MaxBatches THEN {"full"} ELSE {}) :
                    IF size = "empty" THEN EnterRelated(w, pending[w] > 0, Flags(w, o))
                    ELSE Stay(w, IF size = "full" THEN "save_batch" ELSE "save_last",
                              pending[w] + 1, Flags(w, o))
           ELSE IF o = "flood" THEN End(w, o, Flags(w, o))
           ELSE EnterRelated(w, pending[w] > 0, Flags(w, o))
    /\ UNCHANGED sideVars

\* save_channel_messages, extract_message_data lines 288-309: the batch is
\* saved; the media lookup of a grouped message is a remote call inside
\* "except Exception", whatever it raises is logged and dropped. Then lines
\* 485-488: a full batch is followed by the next page.
SaveMessages(w) ==
    /\ pc[w] \in {"save_batch", "save_last"}
    /\ \E o \in Remote(session_name[w]) :
        /\ RemoteEffect(session_name[w], o)
        /\ IF pc[w] = "save_batch"
           THEN Stay(w, "messages", pending[w], Flags(w, o))
           ELSE EnterRelated(w, TRUE, Flags(w, o))
    /\ UNCHANGED sideVars

\* _process_related_channels lines 523-536, get_channel_info_by_id
ResolveRelated(w) ==
    /\ pc[w] = "related"
    /\ \E o \in Remote(session_name[w]) :
        /\ RemoteEffect(session_name[w], o)
        /\ IF o \in {"ok", "err"}
           THEN IF pending[w] = 1 THEN End(w, "done", Flags(w, o))
                ELSE Stay(w, "related", pending[w] - 1, Flags(w, o))
           ELSE End(w, o, Flags(w, o))
    /\ UNCHANGED sideVars

\* --------------------------------------------- process_channels_by_category

MaxOf(S) == CHOOSE x \in S : \A y \in S : y <= x

MinOf(S) == CHOOSE x \in S : \A y \in S : x <= y

\* the n lowest elements of S in increasing order
RECURSIVE FirstN(_, _)
FirstN(S, n) ==
    IF n = 0 \/ S = {} THEN <<>>
    ELSE <<MinOf(S)>> \o FirstN(S \ {MinOf(S)}, n - 1)

\* lines 616-624: the addresses of the requested categories, one category
\* after the other (links: the addresses each category holds; an address can
\* be in several categories, models.py lines 17-28); no address was processed
\* before, so the filter of line 623 keeps them all
RECURSIVE channels_to_process(_, _)
channels_to_process(links, c) ==
    IF c = 0 THEN <<>>
    ELSE channels_to_process(links, c - 1) \o FirstN(links[c], Cardinality(links[c]))

\* lines 616-636: the channels are put on the queue and the workers are
\* created. The queue's items are written as their positions in all_channels.
RunStart ==
    /\ mainpc = "start"
    /\ \E links \in [1..NumCategories -> SUBSET Links] :
        LET urls == channels_to_process(links, NumCategories)
            n == Len(urls)
        IN /\ n <= MaxJobs
           /\ all_channels' = urls
           /\ channel_queue' = [i \in 1..n |-> i]
           /\ unfinished_tasks' = n
           /\ enqueued' = n
    /\ mainpc' = "join"
    /\ UNCHANGED <<smVars, envVars, active_workers, cancelled, workerVars, histVars>>
    /\ UNCHANGED sideVars

Running(w) == pc[w] \notin {"start", "exited"}

\* mutant of JoinReturn: the workers are left running
JoinReturnNoCancel ==
    /\ mainpc = "join"
    /\ unfinished_tasks = 0
    /\ mainpc' = "returned"
    /\ UNCHANGED <<smVars, envVars, channel_queue, unfinished_tasks, active_workers,
                   enqueued, cancelled, all_channels, workerVars, histVars>>
    /\ UNCHANGED sideVars

\* lines 640-651: join() returns when the unfinished counter is 0; every worker
\* is cancelled and awaited (a worker cancelled inside process_channel releases
\* its session and the lock on the way out, lines 445-448 and 39)
JoinReturn ==
    /\ mainpc = "join"
    /\ unfinished_tasks = 0
    /\ mainpc' = "returned"
    /\ cancelled' = {w \in Workers : Running(w)}
    /\ pc' = [w \in Workers |-> "exited"]
    /\ active_workers' = active_workers - Cardinality({w \in Workers : Running(w)})
    /\ busy_sessions' = busy_sessions \ {session_name[w] : w \in Workers}
    /\ session_name' = [w \in Workers |-> None]
    /\ channel_url' = [w \in Workers |-> None]
    /\ retry_count' = [w \in Workers |-> 0]
    /\ scan_left' = [w \in Workers |-> 0]
    /\ passed' = [w \in Workers |-> {}]
    /\ pending' = [w \in Workers |-> 0]
    /\ att' = [w \in Workers |-> NoFlags]
    /\ lock' = None
    /\ UNCHANGED <<current_session_index, clients, banned_sessions, envVars,
                   channel_queue, unfinished_tasks, enqueued, all_channels, done,
                   last>>
    /\ UNCHANGED sideVars

\* ------------------------------------------------------------ specification

MsgIds == 1..MaxMsgId

\* no page was requested yet: above every id
NoBound == MaxMsgId + 1

\* the locals of _process_channel_messages before its first run, and what a
\* run is remembered by: start (the stored checkpoint when it began), saves
\* (its save_channel_message calls), low (the lowest x of its page requests
\* "ids above x"), synced (every remote message was stored when it began and
\* none arrived since), last_saved (the id of the last message it stored),
\* ended (how it ended: "aborted" by FloodWaitError, or "completed"), mine (the
\* ids stored by this run and by the aborted runs of the same job before it)
NoRun == [pc |-> "idle", latest_id |-> None, offset_id |-> 0,
          processed_message_ids |-> {}, new_messages |-> <<>>,
          max_id_in_batch |-> 0, more |-> FALSE, existing |-> FALSE,
          start |-> None, saves |-> 0, low |-> NoBound, synced |-> FALSE,
          last_saved |-> 0, mine |-> {}, ended |-> "none"]

\* the store as Base.metadata creates it: no rows
MsgIdle ==
    /\ remote_ids = {}
    /\ rows = [i \in MsgIds |-> 0]
    /\ run = [w \in Workers |-> NoRun]
    /\ runs = 0
    /\ faults = 0

Channels == 1..NumChannels

Pairs == Channels \X Channels

NoAdd == [pc |-> "idle", kind |-> "none", pair |-> <<1, 1>>]

EdgeIdle ==
    /\ channel_similar = [p \in Pairs |-> 0]
    /\ channel_related = [p \in Pairs |-> 0]
    /\ adding = [w \in Workers |-> NoAdd]

\* what Telegram knows of a chat: its id, its title, its member count if given
Counts == {None, 1, 2}

NoEntity == [kind |-> "none", id |-> None, title |-> "none", participants_count |-> None]

Entities == [kind : {"chat"}, id : {1, 2}, title : {"a", "b"}, participants_count : Counts]

\* what get_input_entity returns: a peer without title, id or member count
InputPeer == [NoEntity EXCEPT !.kind = "input"]

\* the answer of the remote side to the requests of the resolution. For an
\* invite link (CheckChatInviteRequest): "chat" (ChatInviteAlready, with the
\* chat), "title" (ChatInvite: a title and a member count, no chat object) or
\* "other"; for a public name (get_input_entity, GetFullChannelRequest):
\* "full" (a chat and its full info with count), "nochats", "valueerror" (a
\* ValueError, raised before or after get_input_entity returned); or the
\* request raises FloodWaitError, UserDeactivatedBanError or another error.
Answers(url) ==
    (IF url = "joinchat"
     THEN [shape : {"chat"}, chat : Entities, count : {None}]
            \cup [shape : {"title"}, chat : {[NoEntity EXCEPT !.title = "a"],
                                             [NoEntity EXCEPT !.title = "b"]},
                  count : Counts]
            \cup [shape : {"other"}, chat : {NoEntity}, count : {None}]
     ELSE [shape : {"full"}, chat : Entities, count : Counts]
            \cup [shape : {"nochats"}, chat : {NoEntity}, count : {None}]
            \cup [shape : {"valueerror"}, chat : {NoEntity, InputPeer}, count : {None}])
    \cup [shape : {"flood", "ban", "error"}, chat : {NoEntity}, count : {None}]

NoInfo == [name |-> "none", link |-> "none", id |-> None, subscribers |-> None]

NoResolve == [pc |-> "idle", url |-> "none",
              answer |-> [shape |-> "other", chat |-> NoEntity, count |-> None],
              info |-> NoInfo, entity |-> NoEntity, raised |-> "none",
              outcome |-> "none"]

\* worker lines 560, 568-569: the worker waits on the queue, no job in hand
NoRetry == [pc |-> "waiting", job |-> 0, retry_count |-> 0, wait_time |-> 0,
            attempts |-> 0, how |-> "none", available_count |-> 0,
            done |-> 0, put_back |-> 0]

\* no call of extract_forwarded_channels is under way
NoExtract == [pc |-> "idle", messages |-> <<>>, main_channel_id |-> None,
              result |-> <<>>]

CrawlerInit ==
    /\ current_session_index = 0
    /\ clients = {}
    /\ busy_sessions = {}
    /\ banned_sessions = {}
    /\ lock = None
    /\ ready = {}
    /\ revoked = {}
    /\ floods = 0
    /\ connFails = 0
    /\ channel_queue = <<>>
    /\ unfinished_tasks = 0
    /\ active_workers = 0
    /\ mainpc = "start"
    /\ enqueued = 0
    /\ cancelled = {}
    /\ all_channels = <<>>
    /\ pc = [w \in Workers |-> "start"]
    /\ channel_url = [w \in Workers |-> None]
    /\ retry_count = [w \in Workers |-> 0]
    /\ session_name = [w \in Workers |-> None]
    /\ scan_left = [w \in Workers |-> 0]
    /\ passed = [w \in Workers |-> {}]
    /\ pending = [w \in Workers |-> 0]
    /\ done = [j \in Jobs |-> 0]
    /\ att = [w \in Workers |-> NoFlags]
    /\ last = [w \in Workers |-> NoAttempt]

Init ==
    /\ CrawlerInit
    /\ call = NoCall
    /\ MsgIdle
    /\ EdgeIdle
    /\ resolving = NoResolve
    /\ retrying = NoRetry
    /\ extracting = NoExtract

WorkerStep(w) ==
    \/ WorkerStart(w)
    \/ WorkerGet(w)
    \/ WorkerTimeout(w)
    \/ Backoff(w)
    \/ GetClient(w)
    \/ ConnectOk(w)
    \/ ConnectFail(w)
    \/ NoProxy(w)
    \/ Resolve(w)
    \/ SaveMain(w)
    \/ FetchSimilar(w)
    \/ SimilarDetail(w)
    \/ FetchMessages(w)
    \/ SaveMessages(w)
    \/ ResolveRelated(w)

MainStep == RunStart \/ JoinReturn

Next == MainStep \/ \E w \in Workers : WorkerStep(w)

Spec == Init /\ [][Next]_vars

\* The event loop runs every task that is ready: a worker that can take a step
\* takes it, and so does process_channels_by_category.
FairSpec == Spec /\ WF_vars(MainStep) /\ \A w \in Workers : WF_vars(WorkerStep(w))


\* ------------------------------------------- the session pool on its own
\*
\* SessionManager's methods called in any order and with any session name by
\* MaxWorkers callers. A caller is either outside get_client ("start") or
\* suspended inside it ("connecting", holding the lock).

\* the variables of the crawler, which the pool's methods do not touch
PoolKeep ==
    UNCHANGED <<revoked, floods, connFails, crawlerVars, channel_url, retry_count,
                session_name, pending, passed, histVars, msgVars, edgeVars, resolving, retrying,
                extracting>>

Called(op, s) ==
    /\ call.n < MaxCalls
    /\ call' = [op |-> op, s |-> s, n |-> call.n + 1]

\* get_client's loop for caller w after the scan outcome r: None (line 96), a
\* cached client (lines 90-93), or the suspension at lines 57-81
PoolAfterScan(w, r) ==
    /\ current_session_index' = r.idx
    /\ scan_left' = [scan_left EXCEPT ![w] = IF r.kind = "connect" THEN r.k ELSE 0]
    /\ pc' = [pc EXCEPT ![w] = IF r.kind = "connect" THEN "connecting" ELSE "start"]
    /\ lock' = IF r.kind = "connect" THEN w ELSE None
    /\ busy_sessions' = IF r.kind = "cached" THEN busy_sessions \cup {r.s}
                        ELSE busy_sessions

\* get_client lines 39-57 called by w
PoolGetClient(w) ==
    /\ pc[w] = "start"
    /\ lock = None
    /\ Called("get_client", None)
    /\ IF Cardinality(banned_sessions) >= NumSessions
       THEN UNCHANGED <<current_session_index, scan_left, pc, lock, busy_sessions>>
       ELSE PoolAfterScan(w, Scan(current_session_index, NumSessions, clients))
    /\ UNCHANGED <<clients, banned_sessions, ready>>
    /\ PoolKeep

\* get_client lines 78-93: the connect of the candidate slot succeeded, or
\* lines 82-88: it failed and the loop goes on
PoolConnect(w) ==
    /\ pc[w] = "connecting"
    /\ clients' = clients \cup {Candidate}
    /\ \E ok \in BOOLEAN :
        IF ok
        THEN /\ ready' = ready \cup {Candidate}
             /\ busy_sessions' = busy_sessions \cup {Candidate}
             /\ scan_left' = [scan_left EXCEPT ![w] = 0]
             /\ pc' = [pc EXCEPT ![w] = "start"]
             /\ lock' = None
             /\ UNCHANGED current_session_index
        ELSE /\ PoolAfterScan(w, Scan(current_session_index, scan_left[w],
                                      clients \cup {Candidate}))
             /\ UNCHANGED ready
    /\ UNCHANGED <<banned_sessions, call>>
    /\ PoolKeep

\* release_client(s) for any session name
PoolRelease(s) ==
    /\ Called("release_client", s)
    /\ busy_sessions' = release_client(busy_sessions, s)
    /\ UNCHANGED <<current_session_index, clients, banned_sessions, lock, ready, pc,
                   scan_left>>
    /\ PoolKeep

\* mark_session_banned(s) for any session name
PoolMarkBanned(s) ==
    /\ Called("mark_session_banned", s)
    /\ banned_sessions' = mark_session_banned(s).banned
    /\ busy_sessions' = mark_session_banned(s).busy
    /\ UNCHANGED <<current_session_index, clients, lock, ready, pc, scan_left>>
    /\ PoolKeep

PoolNext ==
    \/ \E w \in Workers : PoolGetClient(w) \/ PoolConnect(w)
    \/ \E s \in Sessions : PoolRelease(s) \/ PoolMarkBanned(s)

PoolSpec == Init /\ [][PoolNext]_vars

\* ------------------------------------------- the messages of one channel
\*
\* _process_channel_messages run by the workers on one channel (the same
\* address can be queued more than once: process_channels_by_category lines
\* 616-629 concatenate the categories' channels), with the repository calls
\* it makes. Every step is the code from one await to the next.

Larger(a, b) == IF a > b THEN a ELSE b

Smaller(a, b) == IF a < b THEN a ELSE b

StoredIds == {i \in MsgIds : rows[i] > 0}

\* ChannelRepository.get_latest_message_id: the highest stored message id
get_latest_message_id == IF StoredIds = {} THEN None ELSE MaxOf(StoredIds)

\* mutant of iter_messages: the page comes newest first
iter_messages_reversed(min_id, offset_id) ==
    LET page == FirstN({i \in remote_ids : i > Larger(offset_id, min_id)}, batch_size)
    IN [i \in 1..Len(page) |-> page[Len(page) + 1 - i]]

\* mutant of iter_messages: the page starts at the offset itself
iter_messages_inclusive(min_id, offset_id) ==
    FirstN({i \in remote_ids : i >= Larger(offset_id, min_id)}, batch_size)

\* client.iter_messages(entity, min_id, limit = batch_size, offset_id,
\* reverse = True): the messages above both min_id and offset_id, oldest first
iter_messages(min_id, offset_id) ==
    FirstN({i \in remote_ids : i > Larger(offset_id, min_id)}, batch_size)

\* get_channel_messages lines 202-217: min_id is passed on only if it is truthy
get_channel_messages(min_id, offset_id) ==
    IF min_id # None /\ min_id # 0
    THEN iter_messages(min_id, offset_id)
    ELSE iter_messages(0, offset_id)

\* mutant of save_row: the message replaces the channel's stored history
save_row_replacing(r, m, existing) == [i \in MsgIds |-> IF i = m THEN 1 ELSE 0]

\* save_channel_message lines 349-356: the table after the commit; an existing
\* row is updated, otherwise a row is added (channel_messages has no unique
\* key on (channel_id, message_id), models.py lines 136-146)
save_row(r, m, existing) == IF existing THEN r ELSE [r EXCEPT ![m] = @ + 1]

\* the variables a step of the message run leaves alone
MsgKeep == UNCHANGED <<crawlVars, call, edgeVars, resolving, retrying, extracting>>

\* a failure is injected
Fault == faults < MaxFaults /\ faults' = faults + 1

\* _process_channel_messages lines 486-488: after the batch is saved the loop
\* ends, or goes on from the highest id of the batch
AfterBatch(u) ==
    IF u.more
    THEN [u EXCEPT !.pc = "fetch", !.offset_id = u.max_id_in_batch,
                   !.new_messages = <<>>]
    ELSE [u EXCEPT !.pc = "idle", !.new_messages = <<>>, !.ended = "completed"]

\* save_channel_messages lines 329-339: the next message of the batch
NextMessage(u) ==
    IF Len(u.new_messages) <= 1
    THEN AfterBatch(u)
    ELSE [u EXCEPT !.pc = "select", !.new_messages = Tail(u.new_messages)]

\* _process_channel_messages lines 453-457, get_latest_stored_message_id: the
\* checkpoint is read; a failed read gives None (lines 354-358)
MsgStart(w) ==
    /\ run[w].pc = "idle"
    /\ runs < MaxRuns
    /\ runs' = runs + 1
    /\ \E ok \in BOOLEAN :
        /\ IF ok THEN UNCHANGED faults ELSE Fault
        /\ run' = [run EXCEPT ![w] =
                      [NoRun EXCEPT !.pc = "fetch",
                                    !.latest_id = IF ok THEN get_latest_message_id
                                                  ELSE None,
                                    !.start = get_latest_message_id,
                                    !.mine = IF run[w].ended = "aborted"
                                             THEN run[w].mine ELSE {},
                                    !.synced = remote_ids \subseteq StoredIds]]
    /\ UNCHANGED <<remote_ids, rows>>
    /\ MsgKeep

\* _process_channel_messages lines 461-483, get_channel_messages: one page.
\* FloodWaitError leaves the run (line 220), any other error is an empty page
\* (line 223); either way the run is over.
MsgFetch(w) ==
    LET u == run[w]
        batch == get_channel_messages(u.latest_id, u.offset_id)
        new == SelectSeq(batch, LAMBDA m : m \notin u.processed_message_ids)
        asked == [u EXCEPT !.low = Smaller(@, Larger(u.offset_id, u.latest_id))]
        ids == {batch[i] : i \in 1..Len(batch)}
    IN /\ u.pc = "fetch"
       /\ \E o \in {"ok", "error", "flood"} :
            /\ IF o = "ok" THEN UNCHANGED faults ELSE Fault
            /\ run' = [run EXCEPT ![w] =
                  IF o = "flood"
                  THEN [asked EXCEPT !.pc = "idle", !.ended = "aborted"]
                  ELSE IF o = "error" \/ batch = <<>> \/ new = <<>>
                  THEN [asked EXCEPT !.pc = "idle", !.ended = "completed"]
                  ELSE [asked EXCEPT
                          !.pc = "select",
                          !.processed_message_ids = @ \cup {new[i] : i \in 1..Len(new)},
                          !.new_messages = new,
                          !.max_id_in_batch = MaxOf(ids),
                          !.more = ~(MaxOf(ids) = u.offset_id
                                        \/ Len(batch) < batch_size)]]
       /\ UNCHANGED <<remote_ids, rows, runs>>
       /\ MsgKeep

\* save_channel_messages lines 333-336, save_channel_message lines 342-347:
\* the message data is extracted and the existing row is looked up. "fail":
\* the lookup raises, save_channel_message rolls back and returns None (lines
\* 366-371); "abort": extract_message_data or the database session raises and
\* the rest of the batch is dropped (lines 344-345).
MsgSelect(w) ==
    LET u == run[w]
        m == Head(u.new_messages)
    IN /\ u.pc = "select"
       /\ \E o \in {"ok", "fail", "abort"} :
            /\ IF o = "ok" THEN UNCHANGED faults ELSE Fault
            /\ run' = [run EXCEPT ![w] =
                  IF o = "ok"
                  THEN [u EXCEPT !.pc = "commit", !.existing = rows[m] > 0,
                                 !.saves = @ + 1]
                  ELSE IF o = "fail"
                  THEN NextMessage([u EXCEPT !.saves = @ + 1])
                  ELSE AfterBatch(u)]
       /\ UNCHANGED <<remote_ids, rows, runs>>
       /\ MsgKeep

\* save_channel_message lines 349-364: the row is updated or added and the
\* commit succeeds, or it raises and is rolled back (lines 366-371); the
\* batch goes on with the next message
MsgCommit(w) ==
    LET u == run[w]
        m == Head(u.new_messages)
    IN /\ u.pc = "commit"
       /\ \E ok \in BOOLEAN :
            /\ IF ok THEN UNCHANGED faults ELSE Fault
            /\ rows' = IF ok THEN save_row(rows, m, u.existing) ELSE rows
            /\ run' = [run EXCEPT ![w] =
                          NextMessage([u EXCEPT !.existing = FALSE,
                                                !.last_saved = IF ok THEN m ELSE @,
                                                !.mine = IF ok THEN @ \cup {m}
                                                         ELSE @])]
       /\ UNCHANGED <<remote_ids, runs>>
       /\ MsgKeep

\* the channel posts a message: its id is above every earlier one
MsgPosted ==
    /\ \E i \in MsgIds :
        /\ \A j \in remote_ids : j < i
        /\ remote_ids' = remote_ids \cup {i}
    /\ run' = [w \in Workers |-> [run[w] EXCEPT !.synced = FALSE]]
    /\ UNCHANGED <<rows, runs, faults>>
    /\ MsgKeep

MsgNext ==
    \/ MsgPosted
    \/ \E w \in Workers : MsgStart(w) \/ MsgFetch(w) \/ MsgSelect(w) \/ MsgCommit(w)

MsgSpec == Init /\ [][MsgNext]_vars

\* ------------------------------------------- the edges between channels
\*
\* add_similar_channel and add_related_channel called by the workers in any
\* order for any ordered pair of channels; a call is two steps, the lookup
\* and the commit, and other calls run in between.

\* the table of the kind of edge
Table(kind) == IF kind = "similar" THEN channel_similar ELSE channel_related

\* mutant of insert_edge: the table has no primary key
insert_edge_unkeyed(table, p) == [table EXCEPT ![p] = @ + 1]

\* the commit of a new row: (main_channel_id, similar_channel_id) and
\* (main_channel_id, related_channel_id) are the primary keys (models.py lines
\* 100-133), so a second row for the pair is refused and rolled back
insert_edge(table, p) == IF table[p] > 0 THEN table ELSE [table EXCEPT ![p] = @ + 1]

EdgeKeep == UNCHANGED <<crawlVars, call, msgVars, resolving, retrying, extracting>>

\* add_similar_channel lines 91-98, add_related_channel lines 115-121: the
\* lookup; with a row found the call returns True
EdgeSelect(w) ==
    /\ adding[w].pc = "idle"
    /\ \E kind \in {"similar", "related"}, p \in Pairs :
        adding' = [adding EXCEPT ![w] =
                      [pc |-> IF Table(kind)[p] > 0 THEN "idle" ELSE "insert",
                       kind |-> kind, pair |-> p]]
    /\ UNCHANGED <<channel_similar, channel_related>>
    /\ EdgeKeep

\* add_similar_channel lines 100-109, add_related_channel lines 123-132: the
\* row is added and committed, or the commit raises and is rolled back
EdgeCommit(w) ==
    LET a == adding[w]
    IN /\ a.pc = "insert"
       /\ adding' = [adding EXCEPT ![w] = [a EXCEPT !.pc = "idle"]]
       /\ \E ok \in BOOLEAN :
            /\ channel_similar' = IF ok /\ a.kind = "similar"
                                  THEN insert_edge(channel_similar, a.pair)
                                  ELSE channel_similar
            /\ channel_related' = IF ok /\ a.kind = "related"
                                  THEN insert_edge(channel_related, a.pair)
                                  ELSE channel_related
       /\ EdgeKeep

EdgeNext == \E w \in Workers : EdgeSelect(w) \/ EdgeCommit(w)

EdgeSpec == Init /\ [][EdgeNext]_vars

\* ------------------------------------------- the resolution of an address
\*
\* get_channel_from_url and the use process_channel makes of its result, for
\* one address and one answer of the remote side.

\* _extract_basic_channel_info
extract_basic_channel_info(entity, url) ==
    [name |-> IF entity.title # "none" THEN entity.title ELSE "Channel",
     link |-> url, id |-> entity.id, subscribers |-> entity.participants_count]

\* _extract_channel_info: the count comes from the full info
extract_channel_info(entity, count, url) ==
    [extract_basic_channel_info(entity, url) EXCEPT !.subscribers = count]

Resolved(info, entity) == [raised |-> "none", info |-> info, entity |-> entity]

Raised(e) == [raised |-> e, info |-> NoInfo, entity |-> NoEntity]

\* _process_invite_link: only an answer with a chat gives a record
process_invite_link(url, a) ==
    IF a.shape \in {"flood", "ban"} THEN Raised(a.shape)
    ELSE IF a.shape = "chat"
    THEN Resolved(extract_basic_channel_info(a.chat, url), a.chat)
    ELSE Resolved(NoInfo, NoEntity)

\* _process_public_channel: a chat and its full info give a record, and so
\* does a ValueError once the input entity is known (lines 84-92)
process_public_channel(url, a) ==
    IF a.shape \in {"flood", "ban"} THEN Raised(a.shape)
    ELSE IF a.shape = "full"
    THEN Resolved(extract_channel_info(a.chat, a.count, url), a.chat)
    ELSE IF a.shape = "valueerror" /\ a.chat # NoEntity
    THEN Resolved(extract_basic_channel_info(a.chat, url), a.chat)
    ELSE Resolved(NoInfo, NoEntity)

\* get_channel_from_url lines 31-34
get_channel_from_url(url, a) ==
    IF url = "joinchat" THEN process_invite_link(url, a)
    ELSE process_public_channel(url, a)

ResolveKeep == UNCHANGED <<crawlVars, call, msgVars, edgeVars, retrying, extracting>>

\* process_channel lines 377-379: the address is resolved
ResolveCall ==
    /\ resolving.pc = "start"
    /\ LET r == get_channel_from_url(resolving.url, resolving.answer)
       IN resolving' = [resolving EXCEPT !.pc = "resolved", !.info = r.info,
                                         !.entity = r.entity, !.raised = r.raised]
    /\ ResolveKeep

\* process_channel lines 380-391, 428-438: a raised flood or ban ends the
\* attempt, no record or no entity makes the job unresolvable, otherwise
\* get_or_create_channel stores the record or fails
ResolveStore ==
    /\ resolving.pc = "resolved"
    /\ \E saved \in BOOLEAN :
        resolving' = [resolving EXCEPT
            !.pc = "stored",
            !.outcome = IF resolving.raised # "none" THEN resolving.raised
                        ELSE IF resolving.info = NoInfo \/ resolving.entity = NoEntity
                        THEN "unresolvable"
                        ELSE IF saved THEN "persisted" ELSE "unresolvable"]
    /\ ResolveKeep

ResolveNext == ResolveCall \/ ResolveStore

ResolveInit ==
    /\ CrawlerInit
    /\ call = NoCall
    /\ MsgIdle
    /\ EdgeIdle
    /\ \E url \in {"joinchat", "public"} : \E a \in Answers(url) :
        resolving = [NoResolve EXCEPT !.pc = "start", !.url = url, !.answer = a]
    /\ retrying = NoRetry
    /\ extracting = NoExtract

ResolveSpec == ResolveInit /\ [][ResolveNext]_vars

\* ------------------------------------------------- the worker's retry loop

\* mutant of wait_time: the delay without its cap
wait_time_uncapped(n) == n * 2

\* worker line 589: the delay before the next attempt, n the retry_count
wait_time(n) == Smaller(n * 2, 15)

RetryKeep == UNCHANGED <<crawlVars, call, msgVars, edgeVars, resolving, extracting>>

\* worker lines 560, 568-572: a job comes off the queue; retry_count is set
\* to 0 and the loop's first statement makes it 1, then process_channel runs
RetryGet ==
    /\ retrying.pc = "waiting"
    /\ retrying.job < MaxDequeues
    /\ retrying' = [retrying EXCEPT !.pc = "attempt", !.job = @ + 1,
                                    !.retry_count = 0 + 1, !.attempts = 0,
                                    !.wait_time = 0]
    /\ RetryKeep

\* worker lines 576-596: process_channel returns. A success marks the job
\* done; a failure with no session left puts the job back and the worker
\* stops at line 554; any other failure computes the delay and sleeps.
RetryAttempt ==
    /\ retrying.pc = "attempt"
    /\ \E how \in {"done", "unresolvable", "exception", "flood", "ban", "no_client"},
          available_count \in 0..NumSessions :
        retrying' =
            IF Success(how)
            THEN [retrying EXCEPT !.pc = "waiting", !.attempts = @ + 1, !.how = how,
                                  !.done = @ + 1]
            ELSE IF GiveUp(available_count)
            THEN [retrying EXCEPT !.pc = "stopped", !.attempts = @ + 1, !.how = how,
                                  !.available_count = available_count,
                                  !.put_back = @ + 1]
            ELSE [retrying EXCEPT !.pc = "sleep", !.attempts = @ + 1, !.how = how,
                                  !.available_count = available_count,
                                  !.wait_time = wait_time(retrying.retry_count)]
    /\ RetryKeep

\* mutant of RetrySleep: the job is given up as done after three attempts
RetrySleepCapped ==
    /\ retrying.pc = "sleep"
    /\ retrying.retry_count < MaxAttempts
    /\ retrying' = IF retrying.retry_count >= 3
                   THEN [retrying EXCEPT !.pc = "waiting", !.done = @ + 1]
                   ELSE [retrying EXCEPT !.pc = "attempt", !.retry_count = @ + 1]
    /\ RetryKeep

\* worker lines 591, 571-576: the sleep ends, retry_count goes up by one and
\* process_channel runs again for the same job
RetrySleep ==
    /\ retrying.pc = "sleep"
    /\ retrying.retry_count < MaxAttempts
    /\ retrying' = [retrying EXCEPT !.pc = "attempt", !.retry_count = @ + 1]
    /\ RetryKeep

RetryNext == RetryGet \/ RetryAttempt \/ RetrySleep

RetrySpec == Init /\ [][RetryNext]_vars

\* ------------------------------------------------ extract_forwarded_channels

\* what a message says about where it was forwarded from: nothing (fwd_from
\* is None), a sender that is no channel (from_id has no channel_id), or a
\* channel
Forwards ==
    {[kind |-> "none", channel_id |-> None], [kind |-> "user", channel_id |-> None]}
        \cup [kind : {"channel"}, channel_id : Channels]

\* message lists of up to n messages
RECURSIVE MessageLists(_)
MessageLists(n) ==
    IF n = 0 THEN {<<>>}
    ELSE MessageLists(n - 1)
            \cup {Append(l, f) : l \in {x \in MessageLists(n - 1) : Len(x) = n - 1},
                                 f \in Forwards}

\* extract_forwarded_channels lines 229-240: the loop over the messages,
\* forwarded_channels being the list built so far
RECURSIVE Collect(_, _, _)
Collect(messages, main_channel_id, forwarded_channels) ==
    IF messages = <<>> THEN forwarded_channels
    ELSE LET message == Head(messages)
             channel_id == message.channel_id
             seen == {forwarded_channels[i] : i \in 1..Len(forwarded_channels)}
         IN Collect(Tail(messages), main_channel_id,
                    IF /\ message.kind = "channel"
                       /\ channel_id # 0
                       /\ channel_id # main_channel_id
                       /\ channel_id \notin seen
                    THEN Append(forwarded_channels, channel_id)
                    ELSE forwarded_channels)

\* mutant of extract_forwarded_channels: the channel's own id is not left out
extract_forwarded_channels_with_own(messages, main_channel_id) ==
    Collect(messages, None, <<>>)

\* extract_forwarded_channels lines 226-246
extract_forwarded_channels(messages, main_channel_id) ==
    Collect(messages, main_channel_id, <<>>)

ExtractKeep == UNCHANGED <<crawlVars, call, msgVars, edgeVars, resolving, retrying>>

\* _process_related_channels lines 518-521: the call and its result
ExtractCall ==
    /\ extracting.pc = "start"
    /\ extracting' = [extracting EXCEPT
                         !.pc = "returned",
                         !.result = extract_forwarded_channels(extracting.messages,
                                                               extracting.main_channel_id)]
    /\ ExtractKeep

ExtractNext == ExtractCall

\* the messages of the run and the channel_id column of the channel's row,
\* which is nullable (models.py line 61)
ExtractInit ==
    /\ CrawlerInit
    /\ call = NoCall
    /\ MsgIdle
    /\ EdgeIdle
    /\ resolving = NoResolve
    /\ retrying = NoRetry
    /\ \E l \in MessageLists(MaxMessages), own \in Channels \cup {None} :
        extracting = [NoExtract EXCEPT !.pc = "start", !.messages = l,
                                       !.main_channel_id = own]

ExtractSpec == ExtractInit /\ [][ExtractNext]_vars

\* ------------------------------------------------------------------ claims

\* the worker is inside process_channel
InAttempt(p) ==
    p \in {"get_client", "connecting", "resolve", "save_main", "similar",
           "similar_detail", "messages", "save_batch", "save_last", "related"}

\* C1: a session is never held by two workers at once: the sessions that
\* get_client returned and that were not yet released or banned are held by
\* different workers, and each of them is in the busy set.
C1_OneBusyHolder ==
    \A w1 \in Workers :
        session_name[w1] # None =>
            /\ session_name[w1] \in busy_sessions
            /\ \A w2 \in Workers \ {w1} : session_name[w2] # session_name[w1]

\* C1 witness: a worker asked for a session while another worker held one and
\* was sent away empty-handed, although not every session is banned.
C1_Witness ==
    \E w1, w2 \in Workers :
        /\ session_name[w1] # None
        /\ pc[w2] = "backoff"
        /\ last[w2].how = "no_client"
        /\ banned_sessions # Sessions

C3_ReturnsWhenAllComplete ==
    mainpc = "returned" =>
        /\ channel_queue = <<>>
        /\ \A w \in Workers : channel_url[w] = None
        /\ \A j \in 1..enqueued : done[j] = 1
        /\ \A j \in Jobs \ (1..enqueued) : done[j] = 0

\* C3 witness: the run returned with all its jobs enqueued, one of which
\* needed a second attempt.
C3_Witness ==
    /\ mainpc = "returned"
    /\ enqueued = MaxJobs
    /\ \E w \in Workers : last[w].prevHow \in {"flood", "ban", "no_client"}

\* C4: a run always terminates: process_channels_by_category eventually returns.
C4_RunTerminates == <>(mainpc = "returned")

\* C5: when every session is banned and nothing can move any more, the jobs
\* that are not complete are in the queue, every worker has exited, the
\* available count is 0 and process_channels_by_category has returned.
C5_AllBannedRunReturns ==
    (banned_sessions = Sessions /\ ~ENABLED Next) =>
        /\ \A j \in 1..enqueued :
            done[j] = 0 => \E i \in 1..Len(channel_queue) : channel_queue[i] = j
        /\ \A w \in Workers : pc[w] \in {"start", "exited"}
        /\ get_available_session_count = 0
        /\ mainpc = "returned"

\* C6: no session stays busy without a worker using it: every session of the
\* busy set is held by a worker that is inside process_channel, so the session
\* an ended attempt had acquired is no longer busy on its behalf.
C6_SessionGivenUp ==
    \A s \in busy_sessions :
        \E w \in Workers : session_name[w] = s /\ InAttempt(pc[w])

\* C6 witness: an attempt that had acquired a session ended with a rate limit
\* and the session is free again.
C6_Witness ==
    \E w \in Workers :
        /\ last[w].how = "flood"
        /\ last[w].sess # None
        /\ last[w].sess \notin busy_sessions
        /\ pc[w] = "backoff"

\* C7: after an attempt ended with a ban on session s, s is banned; the worker
\* gave the job up only if every session is banned, and otherwise it still
\* holds the same job and does not run it on s again; when the next attempt completes the job, it ran on another session
\* and, s being the only revoked account, the available count is the number
\* of sessions minus one.
C7_BanThenRetry ==
    \A w \in Workers :
        /\ last[w].how = "ban" =>
            /\ last[w].sess \in banned_sessions
            /\ IF pc[w] = "exited"
               THEN banned_sessions = Sessions
               ELSE /\ channel_url[w] = last[w].job
                    /\ session_name[w] # last[w].sess
        /\ (last[w].how = "done" /\ last[w].prevHow = "ban") =>
            /\ last[w].prevSess \in banned_sessions
            /\ last[w].sess # last[w].prevSess
            /\ done[last[w].job] = 1
            /\ revoked = {last[w].prevSess} =>
                get_available_session_count = NumSessions - 1

\* C7 witness: a job failed with a ban, was completed by the next attempt, and
\* one session less is available.
C7_Witness ==
    \E w \in Workers :
        /\ last[w].how = "done"
        /\ last[w].prevHow = "ban"
        /\ get_available_session_count = NumSessions - 1

\* C8: an attempt in which a remote call raised the account ban ends with the
\* ban outcome: its session is marked banned and the job is not recorded
\* complete by that attempt.
C8_BanReachesScheduler ==
    \A w \in Workers :
        last[w].ban => (last[w].how = "ban" /\ last[w].sess \in banned_sessions)

\* C9: an attempt in which a remote call was rate-limited ends with the
\* retryable outcome and never with the job recorded complete.
C9_FloodReachesScheduler ==
    \A w \in Workers : last[w].flood => last[w].how = "flood"

\* C10: when an attempt ends with process_channel returning False, the worker
\* either keeps the job and sleeps (a session is still available) and then
\* attempts the same job again, or (no session is available) appends the job to
\* the queue, leaves the unfinished counter as it was, and exits.
C10_RetryableHandling ==
    [][\A w \in Workers :
        /\ (InAttempt(pc[w]) /\ ~InAttempt(pc'[w]) /\ mainpc' = mainpc
                /\ ~Success(last'[w].how)) =>
            IF get_available_session_count' > 0
            THEN /\ pc'[w] = "backoff"
                 /\ channel_url'[w] = channel_url[w]
                 /\ channel_queue' = channel_queue
                 /\ unfinished_tasks' = unfinished_tasks
            ELSE /\ pc'[w] = "exited"
                 /\ channel_queue' = Append(channel_queue, channel_url[w])
                 /\ unfinished_tasks' = unfinished_tasks
                 /\ done' = done
        /\ (pc[w] = "backoff" /\ pc'[w] # "backoff") =>
            /\ pc'[w] = "get_client"
            /\ channel_url'[w] = channel_url[w]
            /\ channel_queue' = channel_queue]_vars

\* C10 witness: a worker has put its job back and exited, and the job is in
\* the queue.
C10_Witness ==
    \E w \in Workers :
        /\ pc[w] = "exited"
        /\ last[w].how \in {"flood", "ban", "no_client"}
        /\ mainpc = "join"
        /\ \E i \in 1..Len(channel_queue) : channel_queue[i] = last[w].job

\* C11: a job whose address does not resolve, or whose attempt raised an
\* unexpected exception, is counted complete exactly once by that attempt and
\* is not attempted again: from then on no worker holds it and it is not in
\* the queue.
C11_FatalJobDoneOnce ==
    /\ \A w \in Workers :
        last[w].how \in {"unresolvable", "exception"} => done[last[w].job] = 1
    /\ \A j \in Jobs :
        done[j] >= 1 =>
            /\ done[j] = 1
            /\ \A w \in Workers : channel_url[w] # j
            /\ \A i \in 1..Len(channel_queue) : channel_queue[i] # j

\* C11 witness: one job ended as unresolvable, another with an exception, and
\* the run returned with both counted once.
C11_Witness ==
    /\ mainpc = "returned"
    /\ \E w1, w2 \in Workers :
        /\ last[w1].how = "unresolvable"
        /\ last[w2].how = "exception"
        /\ last[w1].job # last[w2].job
        /\ done[last[w1].job] = 1
        /\ done[last[w2].job] = 1

\* C18 as stated: get_client returns None only when every slot is banned.
C18_NoneOnlyWhenAllBanned ==
    [][\A w \in Workers :
        (pc[w] \in {"get_client", "connecting"} /\ ~InAttempt(pc'[w])
            /\ mainpc' = mainpc /\ last'[w].how = "no_client") =>
                banned_sessions = Sessions]_vars

\* C18 amended: get_client returns None only when it found no slot to give:
\* every slot was banned or busy when the loop reached it, or its connect or
\* authorization failed in this call; a call that did not suspend returns
\* None only in a state where every slot is banned or busy.
C18_NoneOnlyWhenNothingFree ==
    [][\A w \in Workers :
        (pc[w] \in {"get_client", "connecting"} /\ ~InAttempt(pc'[w])
            /\ mainpc' = mainpc /\ last'[w].how = "no_client") =>
                /\ passed'[w] = Sessions
                /\ pc[w] = "get_client" =>
                       Sessions \subseteq (busy_sessions \cup banned_sessions)]_vars

\* C18 witness: get_client returned None to a worker while a slot is not
\* banned, and the worker is backing off.
C18_Witness ==
    \E w \in Workers :
        /\ pc[w] = "backoff"
        /\ last[w].how = "no_client"
        /\ passed[w] = Sessions
        /\ banned_sessions # Sessions

\* the step is a call of mark_session_banned
MarkStep == call'.n # call.n /\ call'.op = "mark_session_banned"

\* C19: for any session s that is not banned yet, in any state of the pool,
\* the available-session count after mark_session_banned(s) is one less than
\* before.
C19_MarkBannedCountsDown ==
    [][(MarkStep /\ call'.s \notin banned_sessions) =>
            get_available_session_count' = get_available_session_count - 1]_vars

\* C20: mark_session_banned(s) moves s from any state (no client yet, idle
\* with a client, busy) to banned: afterwards s is in the banned set and not
\* in the busy set.
C20_MarkBannedFromAnyState ==
    [][MarkStep => (call'.s \in banned_sessions' /\ call'.s \notin busy_sessions')]_vars

\* C12: for a channel with a stored checkpoint C at the start of a run of
\* _process_channel_messages, every page request of the run asks for ids
\* above C only, and the run delivers (and so saves) no message with an id
\* of C or below.
C12_PagesAboveCheckpoint ==
    \A w \in Workers :
        run[w].start # None =>
            /\ run[w].low >= run[w].start
            /\ \A i \in run[w].processed_message_ids : i > run[w].start

\* C13: the checkpoint of the channel, the highest stored message id, never
\* goes down, whatever the runs do: several workers at once, pages that fail,
\* saves that fail.
C13_CheckpointMonotone ==
    [][get_latest_message_id' >= get_latest_message_id]_vars

\* C13 witness: a run was cut short by a failure with part of the history
\* stored, and another worker's run is saving at the same time.
C13_Witness ==
    /\ faults > 0
    /\ get_latest_message_id # None
    /\ \E i \in remote_ids : i > get_latest_message_id
    /\ \E w1, w2 \in Workers :
        /\ run[w1].pc = "idle" /\ run[w1].processed_message_ids # {}
        /\ run[w2].pc = "commit"

\* C14: a run that starts when every remote message is already stored, with
\* no message posted since, makes no save_channel_message call and leaves the
\* checkpoint where it was; the remote history or the stored history may be
\* empty.
C14_SecondRunIdle ==
    \A w \in Workers :
        run[w].synced =>
            /\ run[w].saves = 0
            /\ get_latest_message_id = run[w].start

\* C15: at every point of a run every remote message above the run's
\* starting checkpoint and not above the stored checkpoint is stored.
C15_NoGapBelowCheckpoint ==
    \A w \in Workers :
        run[w].pc # "idle" =>
            \A i \in remote_ids :
                (i > run[w].start /\ i <= get_latest_message_id) => rows[i] > 0

\* C17: the store holds at most one row per message id of the channel.
C17_OneRowPerMessage == \A i \in MsgIds : rows[i] <= 1

\* C16: whatever the order of the add_similar_channel and add_related_channel
\* calls, each table holds at most one row per ordered pair, and a call for a
\* pair that already has its row changes neither table.
C16_OneEdgePerPair ==
    [][/\ \A p \in Pairs : channel_similar'[p] <= 1 /\ channel_related'[p] <= 1
       /\ \A w \in Workers :
            (adding'[w] # adding[w] /\ Table(adding'[w].kind)[adding'[w].pair] > 0) =>
                (channel_similar' = channel_similar
                    /\ channel_related' = channel_related)]_vars

\* C16 witness: a call found no row for its pair, another call added the row
\* in the meantime, and the first call is about to commit its own; the
\* opposite direction of the pair has a row of its own.
C16_Witness ==
    \E w \in Workers :
        /\ adding[w].pc = "insert"
        /\ Table(adding[w].kind)[adding[w].pair] = 1
        /\ Table(adding[w].kind)[<<adding[w].pair[2], adding[w].pair[1]>>] = 1
        /\ adding[w].pair[1] # adding[w].pair[2]

\* the step is a call of release_client
ReleaseStep == call'.n # call.n /\ call'.op = "release_client"

\* C21: release_client(s) takes s out of the busy set and changes nothing
\* else: the banned set, the cached clients and the rotation cursor stay as
\* they were, the other busy sessions stay busy, and for a session that is
\* not busy (idle or banned) the busy set is unchanged too.
C21_ReleaseFrame ==
    [][ReleaseStep =>
        /\ busy_sessions' = busy_sessions \ {call'.s}
        /\ call'.s \notin busy_sessions => busy_sessions' = busy_sessions
        /\ banned_sessions' = banned_sessions
        /\ clients' = clients
        /\ current_session_index' = current_session_index
        /\ lock' = lock]_vars

\* C21 witness: release_client was called for a banned session while another
\* session is busy, and the banned one is still banned.
C21_Witness ==
    /\ call.op = "release_client"
    /\ call.s \in banned_sessions
    /\ call.s \notin busy_sessions
    /\ busy_sessions # {}

\* C22: the pool's lock is not held across the startup delay and the connect:
\* while a worker is connecting a slot the lock is free, and another worker
\* that calls get_client goes ahead with its own scan.
C22_LockFreeWhileConnecting ==
    \A w \in Workers :
        pc[w] = "connecting" =>
            /\ lock # w
            /\ \A w2 \in Workers \ {w} : pc[w2] = "get_client" => ENABLED GetClient(w2)

\* C23: when the connect or the authorization of a slot fails inside
\* get_client, the slot is added to neither the busy nor the banned set, the
\* available count stays as it was, and the call does not return that slot:
\* a session the call returns is none of the slots it passed over or failed
\* to connect.
C23_FailedConnectLeftIdle ==
    [][\A w \in Workers :
        /\ (pc[w] = "connecting" /\ Candidate \in clients' /\ Candidate \notin ready') =>
            /\ Candidate \notin busy_sessions'
            /\ banned_sessions' = banned_sessions
            /\ session_name'[w] # Candidate
            /\ get_available_session_count' = get_available_session_count
        /\ (pc[w] = "connecting" /\ session_name'[w] # None) =>
            session_name'[w] \notin passed[w]]_vars

\* C23 witness: the connect of a slot failed, the slot is neither busy nor
\* banned, and the same call went on to the other slot.
C23_Witness ==
    \E w \in Workers, s \in clients \ ready :
        /\ connFails > 0
        /\ s \notin busy_sessions \cup banned_sessions
        /\ s \in passed[w]
        /\ pc[w] = "connecting"

\* C24: an invite link whose check answers with a bare title resolves to a
\* record with no numeric id and no subscriber count, nothing is raised, and
\* the job is not ended as unresolvable by the resolution.
C24_BareTitleGivesRecord ==
    (resolving.url = "joinchat" /\ resolving.answer.shape = "title") =>
        /\ resolving.pc # "start" =>
            /\ resolving.raised = "none"
            /\ resolving.info # NoInfo
            /\ resolving.info.id = None
            /\ resolving.info.subscribers = None
        /\ (resolving.pc = "stored" /\ resolving.outcome = "unresolvable") =>
            resolving.info # NoInfo

\* C25: within one attempt the stages run in the order Resolve, FetchSimilar,
\* FetchMessages, ExtractRelated, ResolveRelated, Persist: the channel record
\* is written only after the related channels have been resolved, a stage is
\* never followed by an earlier one, and nothing runs after Resolve ended the
\* job as unresolvable.
C25_StagesInOrder ==
    [][\A w \in Workers :
        LET rank(p) == CASE p = "resolve" -> 1
                         [] p \in {"similar", "similar_detail"} -> 2
                         [] p \in {"messages", "save_batch", "save_last"} -> 3
                         [] p = "related" -> 5
                         [] p = "save_main" -> 6
                         [] OTHER -> 0
        IN /\ (rank(pc[w]) > 0 /\ rank(pc'[w]) > 0 /\ pc'[w] # pc[w]) =>
                  /\ rank(pc'[w]) >= rank(pc[w])
                  /\ pc'[w] = "save_main" => pc[w] = "related"
           /\ (pc[w] = "resolve" /\ last'[w] # last[w] /\ last'[w].how = "unresolvable") =>
                  rank(pc'[w]) = 0]_vars

C27_BanRetriesAtOnce ==
    [][\A w \in Workers :
        (InAttempt(pc[w]) /\ ~InAttempt(pc'[w]) /\ last'[w].how = "ban") =>
            /\ last'[w].sess \in banned_sessions'
            /\ pc'[w] # "backoff"]_vars

\* C28: there is no retry cap: an attempt that ends rate-limited while a
\* session is left is followed by a sleep and another attempt of the same
\* job, however many attempts were made; the job is not counted done, not
\* dropped and not put back on the queue.
C28_NoRetryCap ==
    [][LET a == retrying
           b == retrying'
       IN /\ (a.pc = "attempt" /\ b.how = "flood" /\ b.available_count > 0) =>
                 /\ b.pc = "sleep"
                 /\ b.job = a.job
                 /\ b.done = a.done
                 /\ b.put_back = a.put_back
          /\ (a.pc = "sleep" /\ a.how = "flood") =>
                 /\ b.pc = "attempt"
                 /\ b.job = a.job
                 /\ b.retry_count = a.retry_count + 1
                 /\ b.done = a.done
                 /\ b.put_back = a.put_back]_vars

\* C28 witness: the ninth attempt of a job is running after the eighth ended
\* rate-limited, and the job was neither counted done nor put back
C28_Witness ==
    /\ retrying.pc = "attempt"
    /\ retrying.retry_count = MaxAttempts
    /\ retrying.attempts = MaxAttempts - 1
    /\ retrying.how = "flood"
    /\ retrying.done = retrying.job - 1
    /\ retrying.put_back = 0

\* C29: a worker that calls get_client while every session that is not
\* banned is busy is not kept waiting inside the call: the call returns
\* without a session, the worker keeps its job, which is neither counted done
\* nor put back, sleeps, and calls get_client again for the same job.
C29_NoSessionBacksOff ==
    [][\A w \in Workers :
        LET all_busy == /\ get_available_session_count > 0
                        /\ (Sessions \ banned_sessions) \subseteq busy_sessions
        IN /\ (pc[w] = "get_client" /\ all_busy) => ENABLED GetClient(w)
           /\ (pc[w] = "get_client" /\ all_busy /\ pc'[w] # pc[w] /\ mainpc' = mainpc) =>
                  /\ pc'[w] = "backoff"
                  /\ last'[w].how = "no_client"
                  /\ channel_url'[w] = channel_url[w]
                  /\ done' = done
                  /\ channel_queue' = channel_queue
                  /\ unfinished_tasks' = unfinished_tasks
           /\ (pc[w] = "backoff" /\ last[w].how = "no_client" /\ pc'[w] # pc[w]
                   /\ mainpc' = mainpc) =>
                  /\ pc'[w] = "get_client"
                  /\ channel_url'[w] = channel_url[w]]_vars

\* C29 witness: a worker found the only session that is not banned busy in
\* the hands of the other worker, and is about to call get_client again for
\* the job it still holds.
C29_Witness ==
    \E w \in Workers : \E w2 \in Workers \ {w} :
        /\ pc[w] = "get_client"
        /\ retry_count[w] > 1
        /\ last[w].how = "no_client"
        /\ channel_url[w] = last[w].job
        /\ session_name[w2] # None
        /\ (Sessions \ banned_sessions) = {session_name[w2]}
        /\ session_name[w2] \in busy_sessions

\* C30: the paging loop of _process_channel_messages ends for every finite
\* history. It ends when a page is empty, is shorter than the batch size, or
\* has no id above the offset, and only then; when it goes on, the offset
\* of the next request is a message id of the channel above the offset of
\* this one.
C30_PagingAdvancesOrStops ==
    [][\A w \in Workers :
        LET u == run[w]
            v == run'[w]
            batch == get_channel_messages(u.latest_id, u.offset_id)
            ids == {batch[i] : i \in 1..Len(batch)}
            stops == \/ batch = <<>>
                     \/ Len(batch) < batch_size
                     \/ MaxOf(ids) <= u.offset_id
        IN /\ (u.pc = "fetch" /\ v.pc # "fetch" /\ faults' = faults) =>
                  /\ v.pc = "idle" <=> batch = <<>>
                  /\ v.pc # "idle" => (v.more <=> ~stops)
           /\ (u.pc \in {"select", "commit"} /\ v.pc = "fetch") =>
                  /\ u.more
                  /\ v.offset_id > u.offset_id
                  /\ v.offset_id \in remote_ids
           /\ (u.pc \in {"select", "commit"} /\ v.pc = "idle") => ~u.more]_vars

\* C30 witness: a run asked for a second page and then ended
C30_Witness ==
    \E w \in Workers :
        /\ run[w].pc = "idle"
        /\ run[w].offset_id > 0
        /\ run[w].saves > batch_size

\* C31: within one run of _process_channel_messages the messages are stored
\* in strictly increasing order of id, across batches as well: every message
\* the run stores has an id above the one it stored before, so no id is
\* stored twice by the run.
C31_StoredInIncreasingOrder ==
    [][\A w \in Workers :
        (run[w].pc = "commit" /\ run'[w].pc # "commit" /\ faults' = faults) =>
            /\ run'[w].last_saved = Head(run[w].new_messages)
            /\ run'[w].last_saved > run[w].last_saved]_vars

\* C31 witness: a run has stored a message of its second batch
C31_Witness ==
    \E w \in Workers :
        /\ run[w].offset_id > 0
        /\ run[w].last_saved > run[w].offset_id

\* C32: extract_forwarded_channels returns exactly the channel ids the
\* messages were forwarded from, without the channel's own id, each id once,
\* in the order in which they first occur in the list.
C32_ForwardedChannelsExact ==
    extracting.pc = "returned" =>
        LET l == extracting.messages
            r == extracting.result
            at(c) == {k \in 1..Len(l) : l[k].kind = "channel" /\ l[k].channel_id = c}
            first(c) == CHOOSE k \in at(c) : \A j \in at(c) : k <= j
        IN /\ {r[i] : i \in 1..Len(r)} =
                  {c \in Channels : at(c) # {}} \ {extracting.main_channel_id}
           /\ \A i, j \in 1..Len(r) : i # j => r[i] # r[j]
           /\ \A i, j \in 1..Len(r) : i < j => first(r[i]) < first(r[j])

\* C32 witness: the list names the channel itself and two other occurrences
\* of one channel, and the call returned that channel alone
C32_Witness ==
    /\ extracting.pc = "returned"
    /\ Len(extracting.messages) = 3
    /\ \E k \in 1..3 : /\ extracting.messages[k].kind = "channel"
                       /\ extracting.messages[k].channel_id = extracting.main_channel_id
    /\ Len(extracting.result) = 1
    /\ Cardinality({k \in 1..3 : /\ extracting.messages[k].kind = "channel"
                                 /\ extracting.messages[k].channel_id =
                                        extracting.result[1]}) = 2

\* C33: the count of active workers is the number of worker tasks that are
\* running, never above max_workers, and when process_channels_by_category
\* has returned every worker has been stopped and the count is 0.
C33_WorkersStoppedAtReturn ==
    /\ active_workers \in 0..MaxWorkers
    /\ active_workers = Cardinality({w \in Workers : Running(w)})
    /\ mainpc = "returned" =>
        /\ active_workers = 0
        /\ \A w \in Workers : ~Running(w)

\* C33 witness: the run has returned, a worker that was still running when
\* join() came back was cancelled, and the count is 0
C33_Witness ==
    /\ mainpc = "returned"
    /\ active_workers = 0
    /\ enqueued > 0
    /\ cancelled # {}

\* C34: a get_client scan that stops at a slot which is not connected and
\* authorized, because its earlier connect or authorization failed or was
\* never tried, goes through the connect and the authorization of that slot.
C34_FailedSlotConnectedAgain ==
    [][\A w \in Workers :
        (/\ pc[w] = "get_client"
         /\ pc'[w] # "get_client"
         /\ mainpc' = mainpc
         /\ Cardinality(banned_sessions) < NumSessions) =>
            LET r == Scan(current_session_index, NumSessions, clients)
            IN (r.kind # "none" /\ r.s \notin ready) =>
                   (pc'[w] = "connecting" /\ Candidate' = r.s)]_vars

\* C35: a session that get_client handed to a worker is one whose connect
\* succeeded and whose authorization was verified.
C35_HandedOutOnlyIfAuthorized ==
    \A w \in Workers : session_name[w] # None => session_name[w] \in ready

\* C36: every address put on the queue at start is in exactly one place: it
\* waits in the queue once, or exactly one worker holds it, or it is complete;
\* and the queue's unfinished counter is the number of jobs waiting plus the
\* number of jobs held by workers.
C36_JobConservation ==
    /\ \A a \in {all_channels[j] : j \in 1..Len(all_channels)} :
        LET waiting == {i \in 1..Len(channel_queue) : all_channels[channel_queue[i]] = a}
            holders == {w \in Workers : /\ channel_url[w] # None
                                        /\ all_channels[channel_url[w]] = a}
            complete == \E j \in 1..Len(all_channels) : all_channels[j] = a /\ done[j] > 0
        IN Cardinality(waiting) + Cardinality(holders) + (IF complete THEN 1 ELSE 0) = 1
    /\ unfinished_tasks =
           Len(channel_queue) + Cardinality({w \in Workers : channel_url[w] # None})

\* C39: the queue holds each address at most once, and no two workers run
\* the pipeline for the same address at the same time.
C39_AddressQueuedOnce ==
    /\ \A i, j \in 1..Len(channel_queue) :
        i # j => all_channels[channel_queue[i]] # all_channels[channel_queue[j]]
    /\ \A w1, w2 \in Workers :
        (w1 # w2 /\ InAttempt(pc[w1]) /\ InAttempt(pc[w2])) =>
            all_channels[channel_url[w1]] # all_channels[channel_url[w2]]

\* C37: no session is busy and banned at once, and the busy set and the
\* banned set hold names of session slots only.
C37_BusyBannedDisjoint ==
    /\ busy_sessions \cap banned_sessions = {}
    /\ busy_sessions \subseteq Sessions
    /\ banned_sessions \subseteq Sessions

\* C37 witness: a worker's session was banned under it while the other
\* session is busy
C37_Witness ==
    \E w \in Workers :
        /\ last[w].how = "ban"
        /\ last[w].sess \in banned_sessions
        /\ busy_sessions # {}

\* C38: when the message stage of a job completes after earlier attempts of
\* the job were aborted, the messages handed to the related-channel extraction
\* (the all_messages of the completing run) include every message the job
\* has stored, those stored by the aborted attempts as well.
C38_ExtractionCoversAbortedRuns ==
    \A w \in Workers :
        run[w].ended = "completed" => run[w].mine \subseteq run[w].processed_message_ids

\* C40: an attempt that counted its job complete had acquired a session from
\* get_client: a failure raised inside get_client never makes the job done.
C40_DoneOnlyWithSession ==
    \A w \in Workers : Success(last[w].how) => last[w].sess # None

====
